---- MODULE Spec2Model ----
(***************************************************************************)
(* Bluetooth audio device lifecycle manager of the SmartMonitor backend    *)
(* (src/unnamed/part_008).  Every HTTP request is an async handler: it     *)
(* runs synchronously up to its next `await execAsync(...)`, so a request  *)
(* whose pc is a call label has exactly that external command in flight.   *)
(* One action is the completion of the command in flight together with     *)
(* the synchronous code that follows it, up to the next command issued or  *)
(* to the HTTP response.  The external tools (bluetoothctl, pacmd, pactl,  *)
(* systemctl, mpg123) are the environment: every command may exit zero or  *)
(* non-zero, and a zero exit has the tool's effect on the tool state.      *)
(***************************************************************************)
EXTENDS Integers, Sequences, FiniteSets, TLC

(* ------------------------------ bounds -------------------------------- *)
\* number of Bluetooth devices in radio range
NumDevices == 2

(* --------------------------- identifiers ------------------------------ *)
\* device addresses, as character sequences
AllIds ==
  << <<"A", "A", ":", "0", "1">>, <<"B", "B", ":", "0", "2">>,
     <<"C", "C", ":", "0", "3">>, <<"D", "D", ":", "0", "4">> >>

Devices == {AllIds[i] : i \in 1..NumDevices}

\* devices whose info block carries an audio marker ("Audio Sink", "A2DP", "audio")
AudioCapable == {AllIds[i] : i \in {j \in 1..NumDevices : j % 2 = 1}}

\* the spec's non-address token "bm90LWEtbWFj" and a padded base64 token "bm90LQ=="
Base64Plain == <<"b", "m", "9", "0", "L", "W", "E", "t", "b", "W", "F", "j">>
Base64Padded == <<"b", "m", "9", "0", "L", "Q", "=", "=">>

\* a token that differs from the first address only in its separator, "AA_01"
Underscored == <<"A", "A", "_", "0", "1">>

NoId == <<>>

\* the deviceId values a caller sends
TargetIds == Devices \cup {Base64Plain, Base64Padded, Underscored}

\* String.prototype.includes for a one-character needle
Includes(s, ch) == \E i \in 1..Len(s) : s[i] = ch

\* part_008:321  deviceId && deviceId.includes("=") && !deviceId.includes(":")
LooksEncoded(id) == id # NoId /\ Includes(id, "=") /\ ~Includes(id, ":")

\* a transform that drops the identifier
SinkNameForAnyDevice(id) == <<"bluez_sink.">> \o <<".a2dp_sink">>

\* part_008:697  `bluez_sink.${deviceId.replace(/:/g, "_")}.a2dp_sink`
SinkNameFor(id) ==
  <<"bluez_sink.">> \o [i \in 1..Len(id) |-> IF id[i] = ":" THEN "_" ELSE id[i]]
    \o <<".a2dp_sink">>

\* part_008:792  the hardcoded built-in analog output
BuiltinSink == <<"alsa_output.platform-bcm2835_audio.analog-mono">>

UnknownSink == <<"unknown">>

\* part_008:936  currentSink.includes("bluez_sink")
IsBluezSink(s) == \E i \in 1..Len(s) : s[i] = "bluez_sink."

(* ------------------------------ state --------------------------------- *)
Req == {1, 2}

VARIABLES
  known,        \* devices the control tool lists (bluetoothctl devices)
  connected,    \* devices the control tool reports "Connected: yes"
  defaultSink,  \* the audio server's default sink
  req,          \* per request slot: the handler's position and locals
  piConnected,  \* part_008:79  the cached reachability flag
  piCheck,      \* the background check: its command in flight and its tally
  client        \* part_001: the frontend client, its connection and position

vars == <<known, connected, defaultSink, req, piConnected, piCheck, client>>

\* stdout lines of `bluetoothctl devices`, one per known device
DeviceLines == SelectSeq(SubSeq(AllIds, 1, NumDevices), LAMBDA d : d \in known)

\* the markers of `bluetoothctl info <d>` the code searches for
InfoOf(d) ==
  (IF d \in connected THEN {"Connected: yes"} ELSE {})
    \cup (IF d \in AudioCapable THEN {"Audio Sink"} ELSE {})

\* a tool that may exit zero on a device it has never seen
DevOutcomesAnyDevice(d) == {"ok", "fail"}

\* exit status of a bluetoothctl command on device d: the tool fails on a
\* device it has never seen, and may fail on any other
DevOutcomes(d) == IF d \in known THEN {"ok", "fail"} ELSE {"fail"}

Outcomes == {"ok", "fail"}

NoData == [kind |-> "none"]

\* the background check is not running
PiCheckIdle == [i |-> 0, successCount |-> 0]

NoResp == [status |-> 0, success |-> FALSE, needsPiScan |-> FALSE, data |-> NoData]

\* no request precedes
NoHistory ==
  [ fn |-> "none", returned |-> FALSE, failures |-> {}, target |-> NoId,
    audioSetSuccess |-> FALSE, devicesDisconnected |-> 0 ]

Idle ==
  [ pc |-> "idle", entry |-> "none", fn |-> "none", target |-> NoId,
    todo |-> <<>>, connectedDevices |-> <<>>, audioDevices |-> <<>>,
    isAlreadyConnected |-> FALSE, audioSetSuccess |-> FALSE,
    serviceActive |-> FALSE, resp |-> NoResp,
    \* history of the request, not program state: a command was issued; the
    \* target was connected at the start; Disconnect(target) was issued; the
    \* probe of step 4 reported the target connected; which commands exited
    \* non-zero (for a connection attempt the preflight, Connect(target) and
    \* the two sink-selection commands are recorded, and a failed Pair(target)
    \* for as long as the probe of step 4 is in flight); the request a snapshot
    \* follows
    issued |-> FALSE, preConnected |-> FALSE, targetDisconnected |-> FALSE,
    reconnectTriggered |-> FALSE, failures |-> {}, after |-> NoHistory ]

TypeOK ==
  /\ known \subseteq Devices
  /\ connected \subseteq known
  /\ \A r \in Req : req[r].pc \in STRING

Free(r) == req[r].pc \in {"idle", "done"}

InFlight(r) == ~Free(r)

Set(r, loc) == req' = [req EXCEPT ![r] = loc]

\* res.json(...) / res.status(s).json(...)
Respond(loc, status, success, data) ==
  [loc EXCEPT !.pc = "done",
              !.resp = [status |-> status, success |-> success,
                        needsPiScan |-> FALSE, data |-> data]]

\* the handler's catch block: res.status(500).json({success: false, ...})
Respond500(loc) == Respond(loc, 500, FALSE, NoData)

\* a fresh request on slot r, its first command issued
Fresh(r, entry, fn, target, pc) ==
  [Idle EXCEPT !.pc = pc, !.entry = entry, !.fn = fn, !.target = target,
               !.issued = TRUE, !.preConnected = target \in connected]

\* how the request that slot r last answered ended, as far as a snapshot
\* taken right after it is concerned
EndedAs(r) ==
  IF req[r].pc = "done" /\ req[r].fn \in {"disconnectAll", "connect"}
  THEN [ fn |-> req[r].fn, returned |-> req[r].resp.status = 200,
         failures |-> req[r].failures, target |-> req[r].target,
         audioSetSuccess |-> req[r].audioSetSuccess,
         devicesDisconnected |-> Len(req[r].connectedDevices) ]
  ELSE NoHistory

\* command `kind` of the request exited non-zero
Failed(loc, kind) == [loc EXCEPT !.failures = @ \cup {kind}]

(* ------------------- connectBluetoothAudio (619-747) ------------------ *)
\* a result that reports the audio as routed whatever the sink selection did
ConnectResultAudioSet(loc) ==
  [ kind |-> "connect", connected |-> TRUE, deviceId |-> loc.target,
    audioSink |-> SinkNameFor(loc.target), audioSetSuccess |-> TRUE,
    wasReconnected |-> loc.isAlreadyConnected ]

\* the composite result returned at part_008:734-742
ConnectResult(loc) ==
  [ kind |-> "connect", connected |-> TRUE, deviceId |-> loc.target,
    audioSink |-> SinkNameFor(loc.target),
    audioSetSuccess |-> loc.audioSetSuccess,
    wasReconnected |-> loc.isAlreadyConnected ]

\* the function returned: every calling handler answers 200, success: true
Return(loc, data) == Respond(loc, 200, TRUE, data)

\* the function threw: every calling handler's catch answers 500
Throw(loc) == Respond500(loc)

\* after the loop body for the head of todo: the next device's info probe,
\* or, the list exhausted, the command labelled `next`
NextDevice(loc, infoPc, next) ==
  IF Len(loc.todo) > 1
  THEN [loc EXCEPT !.todo = Tail(@), !.pc = infoPc]
  ELSE [loc EXCEPT !.todo = <<>>, !.pc = next]

\* a preflight whose failure is logged only
ConnectServiceStartIgnoresFailure(r) ==
  /\ req[r].pc = "c_svc"
  /\ \E out \in Outcomes :
       IF out = "ok"
       THEN Set(r, [req[r] EXCEPT !.pc = "c_list"])
       ELSE Set(r, [Failed(req[r], "service") EXCEPT !.pc = "c_list"])
  /\ UNCHANGED <<known, connected, defaultSink>>

\* 626: await execAsync("sudo systemctl start bluetooth")
ConnectServiceStart(r) ==
  /\ req[r].pc = "c_svc"
  /\ \E out \in Outcomes :
       IF out = "ok"
       THEN Set(r, [req[r] EXCEPT !.pc = "c_list"])
       ELSE Set(r, Throw(Failed(req[r], "service")))
  /\ UNCHANGED <<known, connected, defaultSink>>

\* an enumeration whose failure ends the attempt
ConnectListDevicesFatal(r) ==
  /\ req[r].pc = "c_list"
  /\ \E out \in Outcomes :
       IF out = "ok"
       THEN IF DeviceLines # <<>>
            THEN Set(r, [req[r] EXCEPT !.todo = DeviceLines, !.pc = "c_info"])
            ELSE Set(r, [req[r] EXCEPT !.pc = "c_trust"])
       ELSE Set(r, Throw(req[r]))
  /\ UNCHANGED <<known, connected, defaultSink>>

\* 631-632: bluetoothctl devices; a failure lands in the catch at 655
ConnectListDevices(r) ==
  /\ req[r].pc = "c_list"
  /\ \E out \in Outcomes :
       IF out = "ok" /\ DeviceLines # <<>>
       THEN Set(r, [req[r] EXCEPT !.todo = DeviceLines, !.pc = "c_info"])
       ELSE Set(r, [req[r] EXCEPT !.pc = "c_trust"])
  /\ UNCHANGED <<known, connected, defaultSink>>

\* 640-643: bluetoothctl info <existing>; a failure is skipped at 650
ConnectInfoExisting(r) ==
  /\ req[r].pc = "c_info"
  /\ LET d == Head(req[r].todo) IN
     \E out \in DevOutcomes(d) :
       IF out = "ok" /\ "Connected: yes" \in InfoOf(d)
       THEN Set(r, [req[r] EXCEPT !.pc = "c_disc",
                                !.targetDisconnected = @ \/ d = req[r].target])
       ELSE Set(r, NextDevice(req[r], "c_info", "c_trust"))
  /\ UNCHANGED <<known, connected, defaultSink>>

\* a clearing loop that ends after its first Disconnect
ConnectDisconnectExistingEndsLoop(r) ==
  /\ req[r].pc = "c_disc"
  /\ LET d == Head(req[r].todo) IN
     \E out \in DevOutcomes(d) :
       /\ connected' = IF out = "ok" THEN connected \ {d} ELSE connected
       /\ Set(r, [req[r] EXCEPT !.todo = <<>>, !.pc = "c_trust"])
  /\ UNCHANGED <<known, defaultSink>>

\* 647-648: bluetoothctl disconnect <existing>; a failure is skipped at 650
ConnectDisconnectExisting(r) ==
  /\ req[r].pc = "c_disc"
  /\ LET d == Head(req[r].todo) IN
     \E out \in DevOutcomes(d) :
       /\ connected' = IF out = "ok" THEN connected \ {d} ELSE connected
       /\ Set(r, NextDevice(req[r], "c_info", "c_trust"))
  /\ UNCHANGED <<known, defaultSink>>

\* 662: bluetoothctl trust <target>; a failure skips the pair (catch at 664)
ConnectTrust(r) ==
  /\ req[r].pc = "c_trust"
  /\ \E out \in DevOutcomes(req[r].target) :
       IF out = "ok"
       THEN Set(r, [req[r] EXCEPT !.pc = "c_pair"])
       ELSE Set(r, [req[r] EXCEPT !.pc = "c_tinfo"])
  /\ UNCHANGED <<known, connected, defaultSink>>

\* a Pair whose failure reaches the catch at 743
ConnectPairFatal(r) ==
  /\ req[r].pc = "c_pair"
  /\ \E out \in DevOutcomes(req[r].target) :
       IF out = "ok"
       THEN Set(r, [req[r] EXCEPT !.pc = "c_tinfo"])
       ELSE Set(r, Throw(Failed(req[r], "pair")))
  /\ UNCHANGED <<known, connected, defaultSink>>

\* 663: bluetoothctl pair <target>; a failure is tolerated (catch at 664)
ConnectPair(r) ==
  /\ req[r].pc = "c_pair"
  /\ \E out \in DevOutcomes(req[r].target) :
       Set(r, [(IF out = "ok" THEN req[r] ELSE Failed(req[r], "pair"))
               EXCEPT !.pc = "c_tinfo"])
  /\ UNCHANGED <<known, connected, defaultSink>>

\* 674-677: bluetoothctl info <target>
ConnectInfoTarget(r) ==
  /\ req[r].pc = "c_tinfo"
  /\ \E out \in DevOutcomes(req[r].target) :
       IF out = "ok" /\ "Connected: yes" \in InfoOf(req[r].target)
       THEN Set(r, [req[r] EXCEPT !.pc = "c_tdisc", !.targetDisconnected = TRUE,
                                !.reconnectTriggered = TRUE,
                                !.failures = @ \ {"pair"}])
       ELSE Set(r, [req[r] EXCEPT !.pc = "c_connect", !.failures = @ \ {"pair"}])
  /\ UNCHANGED <<known, connected, defaultSink>>

\* a forced disconnect after which the tool reconnects every device by itself
ConnectDisconnectTargetBounces(r) ==
  /\ req[r].pc = "c_tdisc"
  /\ \E out \in DevOutcomes(req[r].target) :
       /\ connected' = connected \cup known
       /\ Set(r, [req[r] EXCEPT !.pc = "c_connect",
                                !.isAlreadyConnected = (out = "ok")])
  /\ UNCHANGED <<known, defaultSink>>

\* 681-683: bluetoothctl disconnect <target>; isAlreadyConnected is set only
\* after the command and the settle delay, a failure is swallowed at 685
ConnectDisconnectTarget(r) ==
  /\ req[r].pc = "c_tdisc"
  /\ \E out \in DevOutcomes(req[r].target) :
       /\ connected' = IF out = "ok" THEN connected \ {req[r].target} ELSE connected
       /\ Set(r, [req[r] EXCEPT !.pc = "c_connect",
                                !.isAlreadyConnected = (out = "ok")])
  /\ UNCHANGED <<known, defaultSink>>

\* a Connect whose failure is logged only
ConnectConnectIgnoresFailure(r) ==
  /\ req[r].pc = "c_connect"
  /\ \E out \in DevOutcomes(req[r].target) :
       /\ connected' = IF out = "ok" THEN connected \cup {req[r].target} ELSE connected
       /\ Set(r, [(IF out = "ok" THEN req[r] ELSE Failed(req[r], "connect"))
                  EXCEPT !.pc = "c_pacmd"])
  /\ UNCHANGED <<known, defaultSink>>

\* 690: bluetoothctl connect <target>; a failure reaches the catch at 743
ConnectConnect(r) ==
  /\ req[r].pc = "c_connect"
  /\ \E out \in DevOutcomes(req[r].target) :
       IF out = "ok"
       THEN /\ connected' = connected \cup {req[r].target}
            /\ Set(r, [req[r] EXCEPT !.pc = "c_pacmd"])
       ELSE /\ connected' = connected
            /\ Set(r, Throw(Failed(req[r], "connect")))
  /\ UNCHANGED <<known, defaultSink>>

\* 705-707: pacmd set-default-sink <sinkName>
ConnectPacmd(r) ==
  /\ req[r].pc = "c_pacmd"
  /\ \E out \in Outcomes :
       IF out = "ok"
       THEN /\ defaultSink' = SinkNameFor(req[r].target)
            /\ Set(r, [req[r] EXCEPT !.audioSetSuccess = TRUE, !.pc = "c_tone"])
       ELSE /\ defaultSink' = defaultSink
            /\ Set(r, [Failed(req[r], "pacmd") EXCEPT !.pc = "c_pactl"])
  /\ UNCHANGED <<known, connected>>

\* a fallback whose success is not counted
ConnectPactlNotCounted(r) ==
  /\ req[r].pc = "c_pactl"
  /\ \E out \in Outcomes :
       IF out = "ok"
       THEN /\ defaultSink' = SinkNameFor(req[r].target)
            /\ Set(r, [req[r] EXCEPT !.pc = "c_tone"])
       ELSE /\ defaultSink' = defaultSink
            /\ Set(r, [Failed(req[r], "pactl") EXCEPT !.pc = "c_sinks"])
  /\ UNCHANGED <<known, connected>>

\* 711-713: pactl set-default-sink <sinkName>
ConnectPactl(r) ==
  /\ req[r].pc = "c_pactl"
  /\ \E out \in Outcomes :
       IF out = "ok"
       THEN /\ defaultSink' = SinkNameFor(req[r].target)
            /\ Set(r, [req[r] EXCEPT !.audioSetSuccess = TRUE, !.pc = "c_tone"])
       ELSE /\ defaultSink' = defaultSink
            /\ Set(r, [Failed(req[r], "pactl") EXCEPT !.pc = "c_sinks"])
  /\ UNCHANGED <<known, connected>>

\* 718-722: pactl list short sinks, for the log only
ConnectListSinks(r) ==
  /\ req[r].pc = "c_sinks"
  /\ \E out \in Outcomes : Set(r, [req[r] EXCEPT !.pc = "c_tone"])
  /\ UNCHANGED <<known, connected, defaultSink>>

\* 727-742: mpg123 connected.mp3 (failure logged), then the result
ConnectTone(r) ==
  /\ req[r].pc = "c_tone"
  /\ \E out \in Outcomes : Set(r, Return(req[r], ConnectResult(req[r])))
  /\ UNCHANGED <<known, connected, defaultSink>>

(* ------------------ POST /api/bluetooth (301-368) --------------------- *)
\* 316-344: command "bluetooth_audio_connect"
ApiBluetoothConnect(r) ==
  /\ Free(r)
  /\ \E id \in TargetIds :
       IF LooksEncoded(id)
       THEN Set(r, [Respond([Idle EXCEPT !.entry = "api_bluetooth", !.target = id],
                            400, FALSE, NoData)
                    EXCEPT !.resp.needsPiScan = TRUE])
       ELSE Set(r, Fresh(r, "api_bluetooth", "connect", id, "c_svc"))
  /\ UNCHANGED <<known, connected, defaultSink>>

(* -------------------- POST /bluetooth/connect (549-572) --------------- *)
PostBluetoothConnect(r) ==
  /\ Free(r)
  /\ \E id \in TargetIds \cup {NoId} :
       IF id = NoId
       THEN Set(r, Respond([Idle EXCEPT !.entry = "bluetooth_connect"],
                           400, FALSE, NoData))
       ELSE Set(r, Fresh(r, "bluetooth_connect", "connect", id, "c_svc"))
  /\ UNCHANGED <<known, connected, defaultSink>>

(* -------------------- getBluetoothStatus (876-963) -------------------- *)
\* 901-907: deviceObj
DeviceObj(d) == [id |-> d, mac |-> d, connected |-> TRUE, paired |-> TRUE]

\* 917-920: {...deviceObj, isAudioDevice: true}
AudioDeviceObj(d) ==
  [id |-> d, mac |-> d, connected |-> TRUE, paired |-> TRUE, isAudioDevice |-> TRUE]

\* 941-949: the snapshot returned by the try block
Snapshot(loc, sink, bluez) ==
  [ kind |-> "status", serviceActive |-> loc.serviceActive,
    connectedDevices |-> loc.connectedDevices, audioDevices |-> loc.audioDevices,
    currentAudioSink |-> sink, isBluetoothAudio |-> bluez,
    hasConnectedAudioDevice |-> Len(loc.audioDevices) > 0, error |-> FALSE ]

\* 952-961: the snapshot returned by the catch block
ErrorSnapshot ==
  [ kind |-> "status", serviceActive |-> FALSE,
    connectedDevices |-> <<>>, audioDevices |-> <<>>,
    currentAudioSink |-> UnknownSink, isBluetoothAudio |-> FALSE,
    hasConnectedAudioDevice |-> FALSE, error |-> TRUE ]

\* a catch block that rethrows, as the catch blocks of the other functions do
StatusCatchRethrows(loc) == Throw(loc)

\* a catch block that returns what the try block had collected so far
StatusCatchPartial(loc) == Return(loc, Snapshot(loc, UnknownSink, FALSE))

\* 950-962: what getBluetoothStatus does with an error of its try block
StatusCatch(loc) == Return(loc, ErrorSnapshot)

\* 879-881: systemctl is-active bluetooth (exit 0 prints "active")
StatusServiceActive(r) ==
  /\ req[r].pc = "s_svc"
  /\ \E out \in Outcomes :
       IF out = "ok"
       THEN Set(r, [req[r] EXCEPT !.serviceActive = TRUE, !.pc = "s_list"])
       ELSE Set(r, StatusCatch(Failed(req[r], "service")))
  /\ UNCHANGED <<known, connected, defaultSink>>

\* 884-885: bluetoothctl devices
StatusListDevices(r) ==
  /\ req[r].pc = "s_list"
  /\ \E out \in Outcomes :
       IF out = "ok"
       THEN IF DeviceLines # <<>>
            THEN Set(r, [req[r] EXCEPT !.todo = DeviceLines, !.pc = "s_info"])
            ELSE Set(r, [req[r] EXCEPT !.pc = "s_sink"])
       ELSE Set(r, StatusCatch(Failed(req[r], "list")))
  /\ UNCHANGED <<known, connected, defaultSink>>

\* a loop body that lists every device whose info probe exits zero
StatusInfoStepListsAll(loc, d, out, info) ==
  IF out = "ok"
  THEN [loc EXCEPT !.connectedDevices = Append(@, DeviceObj(d)),
                   !.audioDevices =
                     IF "Audio Sink" \in info THEN Append(@, AudioDeviceObj(d)) ELSE @]
  ELSE Failed(loc, "info")

\* 896-925: what the loop body does with the info probe's outcome
StatusInfoStep(loc, d, out, info) ==
  IF out = "ok"
  THEN IF "Connected: yes" \in info
       THEN [loc EXCEPT !.connectedDevices = Append(@, DeviceObj(d)),
                        !.audioDevices =
                          IF "Audio Sink" \in info
                          THEN Append(@, AudioDeviceObj(d)) ELSE @]
       ELSE loc
  ELSE Failed(loc, "info")

\* 897-899: bluetoothctl info <device>
StatusInfo(r) ==
  /\ req[r].pc = "s_info"
  /\ LET d == Head(req[r].todo) IN
     \E out \in DevOutcomes(d) :
       Set(r, NextDevice(StatusInfoStep(req[r], d, out, InfoOf(d)), "s_info", "s_sink"))
  /\ UNCHANGED <<known, connected, defaultSink>>

\* 931-939: what the default-sink query's outcome makes of the snapshot
StatusSinkStep(loc, out, sink) ==
  IF out = "ok"
  THEN Return(loc, Snapshot(loc, sink, IsBluezSink(sink)))
  ELSE Return(Failed(loc, "sink"), Snapshot(loc, UnknownSink, FALSE))

\* 932-934: pactl info | grep "Default Sink"
StatusDefaultSink(r) ==
  /\ req[r].pc = "s_sink"
  /\ \E out \in Outcomes : Set(r, StatusSinkStep(req[r], out, defaultSink))
  /\ UNCHANGED <<known, connected, defaultSink>>

\* 371-385: GET /api/bluetooth/status, sent by a client that has its previous
\* response: the snapshot follows that request
GetBluetoothStatus(r) ==
  /\ Free(r)
  /\ Set(r, [Fresh(r, "api_bluetooth_status", "status", NoId, "s_svc")
             EXCEPT !.after = EndedAs(r)])
  /\ UNCHANGED <<known, connected, defaultSink>>

\* 371-385: GET /api/bluetooth/status while other requests may be in flight:
\* the snapshot follows no particular request
GetBluetoothStatusOverlapping(r) ==
  /\ Free(r)
  /\ Set(r, Fresh(r, "api_bluetooth_status", "status", NoId, "s_svc"))
  /\ UNCHANGED <<known, connected, defaultSink>>

(* ------------------ GET /bluetooth/connected (388-463) ---------------- *)
\* 414-421: the entry pushed for a connected device
ConnectedDeviceObj(d, info) ==
  [ id |-> d, mac |-> d, connected |-> TRUE, paired |-> TRUE,
    isAudioDevice |-> "Audio Sink" \in info ]

\* 442-451
ConnectedResponse(loc, sink, bluez) ==
  [ kind |-> "connected", connectedDevices |-> loc.connectedDevices,
    currentAudioSink |-> sink, isBluetoothAudio |-> bluez,
    hasConnectedAudioDevice |->
      \E i \in 1..Len(loc.connectedDevices) : loc.connectedDevices[i].isAudioDevice ]

\* 392-393: bluetoothctl devices; a failure reaches the catch at 452
ConnectedListDevices(r) ==
  /\ req[r].pc = "bc_list"
  /\ \E out \in Outcomes :
       IF out = "ok"
       THEN IF DeviceLines # <<>>
            THEN Set(r, [req[r] EXCEPT !.todo = DeviceLines, !.pc = "bc_info"])
            ELSE Set(r, [req[r] EXCEPT !.pc = "bc_sink"])
       ELSE Set(r, Respond500(Failed(req[r], "list")))
  /\ UNCHANGED <<known, connected, defaultSink>>

\* 404-425: bluetoothctl info <device>; a failure skips the device
ConnectedInfo(r) ==
  /\ req[r].pc = "bc_info"
  /\ LET d == Head(req[r].todo) IN
     \E out \in DevOutcomes(d) :
       LET loc == IF out = "ok"
                  THEN IF "Connected: yes" \in InfoOf(d)
                       THEN [req[r] EXCEPT !.connectedDevices =
                                             Append(@, ConnectedDeviceObj(d, InfoOf(d)))]
                       ELSE req[r]
                  ELSE Failed(req[r], "info")
       IN Set(r, NextDevice(loc, "bc_info", "bc_sink"))
  /\ UNCHANGED <<known, connected, defaultSink>>

\* 432-451: pactl info | grep "Default Sink", then the response
ConnectedDefaultSink(r) ==
  /\ req[r].pc = "bc_sink"
  /\ \E out \in Outcomes :
       IF out = "ok"
       THEN Set(r, Respond(req[r], 200, TRUE,
                           ConnectedResponse(req[r], defaultSink, IsBluezSink(defaultSink))))
       ELSE Set(r, Respond(Failed(req[r], "sink"), 200, TRUE,
                           ConnectedResponse(req[r], UnknownSink, FALSE)))
  /\ UNCHANGED <<known, connected, defaultSink>>

\* 388-390: GET /bluetooth/connected
GetBluetoothConnected(r) ==
  /\ Free(r)
  /\ Set(r, Fresh(r, "bluetooth_connected", "connected", NoId, "bc_list"))
  /\ UNCHANGED <<known, connected, defaultSink>>

(* ----------------- disconnectBluetoothAudio (749-816) ----------------- *)
\* 806-811
DisconnectAllResult(loc) ==
  [ kind |-> "disconnectAll", disconnected |-> TRUE,
    devicesDisconnected |-> Len(loc.connectedDevices),
    disconnectedDevices |-> loc.connectedDevices ]

\* 754-755: bluetoothctl devices; a failure reaches the catch at 812
DisconnectAllListDevices(r) ==
  /\ req[r].pc = "da_list"
  /\ \E out \in Outcomes :
       IF out = "ok"
       THEN IF DeviceLines # <<>>
            THEN Set(r, [req[r] EXCEPT !.todo = DeviceLines, !.pc = "da_info"])
            ELSE Set(r, [req[r] EXCEPT !.pc = "da_pacmd"])
       ELSE Set(r, Throw(Failed(req[r], "list")))
  /\ UNCHANGED <<known, connected, defaultSink>>

\* a second loop that starts at the second collected device
DisconnectAllSecondLoopSkipsFirst(loc) ==
  IF loc.pc = "da_disc" /\ Len(loc.connectedDevices) > 1
  THEN [loc EXCEPT !.todo = Tail(loc.connectedDevices)]
  ELSE [loc EXCEPT !.pc = "da_pacmd"]

\* 779: the second loop starts over the devices the first loop collected
DisconnectAllSecondLoop(loc) ==
  IF loc.pc = "da_disc" /\ loc.connectedDevices # <<>>
  THEN [loc EXCEPT !.todo = loc.connectedDevices]
  ELSE [loc EXCEPT !.pc = "da_pacmd"]

\* 766-774: bluetoothctl info <device>; a failure skips the device
DisconnectAllInfo(r) ==
  /\ req[r].pc = "da_info"
  /\ LET d == Head(req[r].todo) IN
     \E out \in DevOutcomes(d) :
       LET loc == IF out = "ok"
                  THEN IF "Connected: yes" \in InfoOf(d)
                       THEN [req[r] EXCEPT !.connectedDevices = Append(@, d)]
                       ELSE req[r]
                  ELSE Failed(req[r], "info")
           nxt == NextDevice(loc, "da_info", "da_disc")
       IN Set(r, IF nxt.pc = "da_info" THEN nxt ELSE DisconnectAllSecondLoop(nxt))
  /\ UNCHANGED <<known, connected, defaultSink>>

\* a Disconnect whose failure ends the operation
DisconnectAllDisconnectFatal(r) ==
  /\ req[r].pc = "da_disc"
  /\ LET d == Head(req[r].todo) IN
     \E out \in DevOutcomes(d) :
       IF out = "ok"
       THEN /\ connected' = connected \ {d}
            /\ Set(r, NextDevice(req[r], "da_disc", "da_pacmd"))
       ELSE /\ connected' = connected
            /\ Set(r, Throw(Failed(req[r], "disconnect")))
  /\ UNCHANGED <<known, defaultSink>>

\* 782-786: bluetoothctl disconnect <device>; a failure is logged only
DisconnectAllDisconnect(r) ==
  /\ req[r].pc = "da_disc"
  /\ LET d == Head(req[r].todo) IN
     \E out \in DevOutcomes(d) :
       /\ connected' = IF out = "ok" THEN connected \ {d} ELSE connected
       /\ Set(r, NextDevice(IF out = "ok" THEN req[r] ELSE Failed(req[r], "disconnect"),
                            "da_disc", "da_pacmd"))
  /\ UNCHANGED <<known, defaultSink>>

\* 791-793: pacmd set-default-sink <built-in>
DisconnectAllPacmd(r) ==
  /\ req[r].pc = "da_pacmd"
  /\ \E out \in Outcomes :
       IF out = "ok"
       THEN /\ defaultSink' = BuiltinSink
            /\ Set(r, Return(req[r], DisconnectAllResult(req[r])))
       ELSE /\ defaultSink' = defaultSink
            /\ Set(r, [req[r] EXCEPT !.pc = "da_pactl"])
  /\ UNCHANGED <<known, connected>>

\* 797-803: pactl set-default-sink <built-in>; a failure is logged only
DisconnectAllPactl(r) ==
  /\ req[r].pc = "da_pactl"
  /\ \E out \in Outcomes :
       /\ defaultSink' = IF out = "ok" THEN BuiltinSink ELSE defaultSink
       /\ Set(r, Return(req[r], DisconnectAllResult(req[r])))
  /\ UNCHANGED <<known, connected>>

(* ------------- disconnectSpecificBluetoothDevice (818-874) ------------ *)
DisconnectOneResult(loc, disconnected) ==
  [kind |-> "disconnectOne", disconnected |-> disconnected, deviceId |-> loc.target]

\* a DisconnectOne that disconnects whatever the probe reports
DisconnectOneInfoUnchecked(r) ==
  /\ req[r].pc = "do_info"
  /\ \E out \in DevOutcomes(req[r].target) :
       IF out = "ok"
       THEN Set(r, [req[r] EXCEPT !.pc = "do_disc", !.targetDisconnected = TRUE])
       ELSE Set(r, Throw(Failed(req[r], "info")))
  /\ UNCHANGED <<known, connected, defaultSink>>

\* 824-837: bluetoothctl info <deviceId>
DisconnectOneInfo(r) ==
  /\ req[r].pc = "do_info"
  /\ \E out \in DevOutcomes(req[r].target) :
       IF out = "ok"
       THEN IF "Connected: yes" \in InfoOf(req[r].target)
            THEN Set(r, [req[r] EXCEPT !.pc = "do_disc", !.targetDisconnected = TRUE])
            ELSE Set(r, Return(req[r], DisconnectOneResult(req[r], FALSE)))
       ELSE Set(r, Throw(Failed(req[r], "info")))
  /\ UNCHANGED <<known, connected, defaultSink>>

\* 840: bluetoothctl disconnect <deviceId>; a failure reaches the catch at 868
DisconnectOneDisconnect(r) ==
  /\ req[r].pc = "do_disc"
  /\ \E out \in DevOutcomes(req[r].target) :
       IF out = "ok"
       THEN /\ connected' = connected \ {req[r].target}
            /\ Set(r, [req[r] EXCEPT !.pc = "do_pacmd"])
       ELSE /\ connected' = connected
            /\ Set(r, Throw(Failed(req[r], "disconnect")))
  /\ UNCHANGED <<known, defaultSink>>

\* 847-849: pacmd set-default-sink <built-in>
DisconnectOnePacmd(r) ==
  /\ req[r].pc = "do_pacmd"
  /\ \E out \in Outcomes :
       IF out = "ok"
       THEN /\ defaultSink' = BuiltinSink
            /\ Set(r, Return(req[r], DisconnectOneResult(req[r], TRUE)))
       ELSE /\ defaultSink' = defaultSink
            /\ Set(r, [req[r] EXCEPT !.pc = "do_pactl"])
  /\ UNCHANGED <<known, connected>>

\* 853-859: pactl set-default-sink <built-in>; a failure is logged only
DisconnectOnePactl(r) ==
  /\ req[r].pc = "do_pactl"
  /\ \E out \in Outcomes :
       /\ defaultSink' = IF out = "ok" THEN BuiltinSink ELSE defaultSink
       /\ Set(r, Return(req[r], DisconnectOneResult(req[r], TRUE)))
  /\ UNCHANGED <<known, connected>>

\* 346-353: POST /api/bluetooth, command "bluetooth_audio_disconnect"
ApiBluetoothDisconnect(r) ==
  /\ Free(r)
  /\ Set(r, Fresh(r, "api_bluetooth", "disconnectAll", NoId, "da_list"))
  /\ UNCHANGED <<known, connected, defaultSink>>

\* 490-521: POST /bluetooth/disconnect, one device or all if deviceId is omitted
PostBluetoothDisconnect(r) ==
  /\ Free(r)
  /\ \E id \in Devices \cup {NoId} :
       IF id # NoId
       THEN Set(r, Fresh(r, "bluetooth_disconnect", "disconnectOne", id, "do_info"))
       ELSE Set(r, Fresh(r, "bluetooth_disconnect", "disconnectAll", NoId, "da_list"))
  /\ UNCHANGED <<known, connected, defaultSink>>

(* ------------------------------ scanning ------------------------------ *)
Undefined == <<"undefined">>

\* 593-605 and 530-539: stdout.trim().split("\n").map(...); the split of an
\* empty output is one empty line, whose parts[1] is undefined
ParseDeviceLines(lines) ==
  IF lines = <<>>
  THEN <<[id |-> Undefined]>>
  ELSE [i \in 1..Len(lines) |-> [id |-> lines[i]]]

\* 608-612
ScanResult(lines) ==
  [ kind |-> "scan", devices |-> ParseDeviceLines(lines),
    count |-> Len(ParseDeviceLines(lines)) ]

\* a discovery window: the tool may come to know more of the devices in range
Discovered == {k \in SUBSET Devices : known \subseteq k}

\* 583: echo 'scan on' | bluetoothctl; a failure reaches the catch at 613
ScanOn(r) ==
  /\ req[r].pc = "sc_on"
  /\ \E out \in Outcomes :
       IF out = "ok"
       THEN /\ known' \in Discovered
            /\ Set(r, [req[r] EXCEPT !.pc = "sc_off"])
       ELSE /\ known' = known
            /\ Set(r, Throw(req[r]))
  /\ UNCHANGED <<connected, defaultSink>>

\* 586-589: the 8 s window, then echo 'scan off' | bluetoothctl
ScanOff(r) ==
  /\ req[r].pc = "sc_off"
  /\ \E out \in Outcomes :
       IF out = "ok"
       THEN Set(r, [req[r] EXCEPT !.pc = "sc_list"])
       ELSE Set(r, Throw(req[r]))
  /\ UNCHANGED <<known, connected, defaultSink>>

\* 592-612: bluetoothctl devices
ScanListDevices(r) ==
  /\ req[r].pc = "sc_list"
  /\ \E out \in Outcomes :
       IF out = "ok"
       THEN Set(r, Return(req[r], ScanResult(DeviceLines)))
       ELSE Set(r, Throw(req[r]))
  /\ UNCHANGED <<known, connected, defaultSink>>

\* 307-314: POST /api/bluetooth, command "bluetooth_scan"
ApiBluetoothScan(r) ==
  /\ Free(r)
  /\ Set(r, Fresh(r, "api_bluetooth", "scan", NoId, "sc_on"))
  /\ UNCHANGED <<known, connected, defaultSink>>

\* 527: bluetoothctl --timeout 10 scan on; a failure reaches the catch at 542
GetScanOn(r) ==
  /\ req[r].pc = "gs_on"
  /\ \E out \in Outcomes :
       IF out = "ok"
       THEN /\ known' \in Discovered
            /\ Set(r, [req[r] EXCEPT !.pc = "gs_list"])
       ELSE /\ known' = known
            /\ Set(r, Respond500(req[r]))
  /\ UNCHANGED <<connected, defaultSink>>

\* 529-541: bluetoothctl devices, res.json({success: true, devices})
GetScanListDevices(r) ==
  /\ req[r].pc = "gs_list"
  /\ \E out \in Outcomes :
       IF out = "ok"
       THEN Set(r, Respond(req[r], 200, TRUE,
                           [kind |-> "scan", devices |-> ParseDeviceLines(DeviceLines),
                            count |-> Len(ParseDeviceLines(DeviceLines))]))
       ELSE Set(r, Respond500(req[r]))
  /\ UNCHANGED <<known, connected, defaultSink>>

\* 524-546: GET /bluetooth/scan
GetBluetoothScan(r) ==
  /\ Free(r)
  /\ Set(r, Fresh(r, "bluetooth_scan", "getscan", NoId, "gs_on"))
  /\ UNCHANGED <<known, connected, defaultSink>>

(* ---------- the external command never returns (part_008:14) ---------- *)
\* execAsync is promisify(exec) called with no timeout option: when the
\* child process never exits the awaited promise never settles, and no code
\* of the request runs again
ToolHangs(r) ==
  /\ InFlight(r)
  /\ req[r].pc # "hung"
  /\ Set(r, [req[r] EXCEPT !.pc = "hung"])
  /\ UNCHANGED <<known, connected, defaultSink>>

(* --------- the periodic reachability check (1114-1194) ---------------- *)
\* a list of checks one of which enumerates the Bluetooth devices
PiChecksWithEnumeration ==
  << [tool |-> "cat", arg |-> "/sys/class/thermal/thermal_zone0/temp"],
     [tool |-> "bluetoothctl", arg |-> "devices"],
     [tool |-> "uname", arg |-> "-m"] >>

\* 1123-1142: the commands of the three checks, in the order they are run
PiChecks ==
  << [tool |-> "cat", arg |-> "/sys/class/thermal/thermal_zone0/temp"],
     [tool |-> "cat", arg |-> "/proc/cpuinfo"],
     [tool |-> "uname", arg |-> "-m"] >>

\* 1148-1156: a check passes, returns a falsy value, or throws
PiCheckOutcomes == {"pass", "nodata", "fail"}

\* 1180-1191 and 1117-1120: the timer fires; in development mode
\* checkPiConnection returns true at once, otherwise it runs its first check
UpdateSystemInfoPeriodically ==
  /\ piCheck = PiCheckIdle
  /\ \E development \in BOOLEAN :
       IF development
       THEN piConnected' = TRUE /\ piCheck' = piCheck
       ELSE piConnected' = piConnected /\ piCheck' = [i |-> 1, successCount |-> 0]
  /\ UNCHANGED <<known, connected, defaultSink, req, client>>

\* 1147-1169, 1183: check i ends; after the last one at least one pass of
\* the three makes piConnected true
PiCheckStep ==
  /\ piCheck.i \in 1..Len(PiChecks)
  /\ \E out \in PiCheckOutcomes :
       LET n == piCheck.successCount + (IF out = "pass" THEN 1 ELSE 0) IN
       IF piCheck.i < Len(PiChecks)
       THEN piCheck' = [i |-> piCheck.i + 1, successCount |-> n]
            /\ piConnected' = piConnected
       ELSE piCheck' = PiCheckIdle /\ piConnected' = (n >= 1)
  /\ UNCHANGED <<known, connected, defaultSink, req, client>>

(* ---------------- the frontend client (part_001) -------------------- *)
\* part_008:91-118: the endpoints GET /api advertises
ApiEndpoints ==
  << "/api/status", "/api/pi/status", "/api/system/info", "/api/bluetooth",
     "/api/bluetooth/status", "/bluetooth/connected", "/bluetooth/scan",
     "/bluetooth/connect", "/bluetooth/disconnect", "/api/spotify/auth",
     "/api/spotify/callback", "/api/spotify/status", "/api/spotify/current",
     "/api/spotify/playback", "/api/spotify/skip", "/api/spotify/volume",
     "/api/spotify/shuffle", "/api/spotify/repeat", "/api/spotify/user",
     "/api/pi/spotify-credentials", "/api/pi/spotify-credentials/status",
     "/api/pi/spotify-mirror", "/api/pi/spotify-mirror-control",
     "/api/wallpapers", "/api/wallpapers/set", "/api/wallpapers/status" >>

\* part_001:236-240: the endpoints checked when GET /api fails
EssentialEndpoints ==
  << "/api/status", "/api/system/info", "/api/bluetooth/status" >>

\* part_001:324-327: the endpoints of a Bluetooth command, in the order written
CommandEndpoints ==
  << "/api/bluetooth", "/bluetooth", "/api/controls", "/controls" >>

\* part_001:338-350 and part_008:307-346: the commands POST /api/bluetooth knows
BluetoothCommands ==
  {"bluetooth_scan", "bluetooth_audio_connect", "bluetooth_audio_disconnect"}

\* the app.get routes of part_008: what the handler of GET e runs.  "none":
\* no GET route (404); "other": a handler that runs no Bluetooth code
GetRoute(e) ==
  CASE e \in {"/api/status", "/api/bluetooth/status"} -> "status"
    [] e = "/api/pi/status" -> "pi"
    [] e = "/bluetooth/connected" -> "connected"
    [] e = "/bluetooth/scan" -> "getscan"
    [] e \in {"/api/bluetooth", "/bluetooth/connect", "/bluetooth/disconnect",
              "/api/spotify/playback", "/api/spotify/skip",
              "/api/spotify/volume", "/api/spotify/shuffle",
              "/api/spotify/repeat", "/api/pi/spotify-credentials",
              "/api/pi/spotify-mirror", "/api/pi/spotify-mirror-control",
              "/api/wallpapers/set"} -> "none"
    [] OTHER -> "other"

\* the app.post routes of part_008 among the endpoints of a command
PostRoute(e) == IF e = "/api/bluetooth" THEN "api_bluetooth" ELSE "none"

\* a JavaScript value as far as `||` and the callers of makeRequest look at
\* it: its type, and for an ApiResponse object its success field
UndefinedValue == [type |-> "undefined", success |-> FALSE]

\* part_001:143-149, 178-200: every return of makeRequest is an object
ApiResponse(success) == [type |-> "object", success |-> success]

\* the operand test of `||`: null and undefined are falsy, an object is truthy
Truthy(v) == v.type \notin {"undefined", "null"}

\* part_001:25-31: a client that has no connection
NoConnection ==
  [ pc |-> "idle", op |-> "none", isConnected |-> FALSE, todo |-> <<>>,
    command |-> "none", k |-> 0, calls |-> <<>>, result |-> UndefinedValue ]

\* part_001:33-41, 82-86 and part_008:83-85: piClient.connect fetches the base
\* URL; when the fetch fails the connection is dropped and connect returns
PiClientConnect ==
  /\ client.pc = "idle"
  /\ piCheck = PiCheckIdle
  /\ \E out \in Outcomes :
       IF out = "ok"
       THEN client' = [NoConnection EXCEPT !.pc = "pi_status", !.op = "connect"]
       ELSE client' = [NoConnection EXCEPT !.op = "connect"]
  /\ UNCHANGED <<known, connected, defaultSink, req, piConnected, piCheck>>

\* part_008:250-253, 1117-1120: the handler of GET /api/pi/status starts
\* checkPiConnection, which in development mode returns true at once
GetApiPiStatus ==
  /\ client.pc = "pi_status"
  /\ \E development \in BOOLEAN :
       IF development
       THEN piConnected' = TRUE /\ piCheck' = piCheck
       ELSE piConnected' = piConnected /\ piCheck' = [i |-> 1, successCount |-> 0]
  /\ client' = [client EXCEPT !.pc = "pi_check"]
  /\ UNCHANGED <<known, connected, defaultSink, req>>

\* after the request for the head of todo: the next endpoint, or the end of
\* discoverEndpoints and with it of connect (part_001:231, 68-70)
NextEndpoint(c) ==
  IF Len(c.todo) > 1
  THEN [c EXCEPT !.todo = Tail(c.todo), !.pc = "disc_send"]
  ELSE [c EXCEPT !.todo = <<>>, !.pc = "idle"]

\* part_008:255-259 and part_001:49-76: the answer of GET /api/pi/status.  In
\* connect it decides whether there is a connection; in the discovery it is
\* one more verified endpoint
PiStatusResponse ==
  /\ client.pc = "pi_check"
  /\ piCheck = PiCheckIdle
  /\ \E out \in Outcomes :
       IF client.todo # <<>>
       THEN client' = NextEndpoint(client)
       ELSE IF out = "ok" /\ piConnected
            THEN client' = [client EXCEPT !.isConnected = TRUE, !.pc = "disc_api"]
            ELSE client' = [client EXCEPT !.isConnected = FALSE, !.pc = "idle"]
  /\ UNCHANGED <<known, connected, defaultSink, req, piConnected, piCheck>>

\* part_001:210-217, 236-240: makeRequest('/api'); its endpoint list, or the
\* essential endpoints when the request fails
DiscoverEndpoints ==
  /\ client.pc = "disc_api"
  /\ \E out \in Outcomes :
       client' = [client EXCEPT !.pc = "disc_send",
                                !.todo = IF out = "ok" THEN ApiEndpoints
                                         ELSE EssentialEndpoints]
  /\ UNCHANGED <<known, connected, defaultSink, req, piConnected, piCheck>>

\* part_001:221 (245) and 153-161: makeRequest(endpoint), a GET of the next
\* endpoint; the fetch fails, or the endpoint's handler, if it has one, runs
VerifyEndpoint ==
  /\ client.pc = "disc_send"
  /\ Free(1)
  /\ LET e == Head(client.todo) IN
     \E out \in Outcomes :
       IF out = "fail" \/ GetRoute(e) \in {"none", "other"}
       THEN /\ client' = NextEndpoint(client)
            /\ UNCHANGED <<known, connected, defaultSink, req>>
       ELSE CASE GetRoute(e) = "status" ->
                   GetBluetoothStatus(1) /\ client' = [client EXCEPT !.pc = "disc_wait"]
              [] GetRoute(e) = "connected" ->
                   GetBluetoothConnected(1) /\ client' = [client EXCEPT !.pc = "disc_wait"]
              [] GetRoute(e) = "getscan" ->
                   GetBluetoothScan(1) /\ client' = [client EXCEPT !.pc = "disc_wait"]
              [] GetRoute(e) = "pi" ->
                   /\ client' = [client EXCEPT !.pc = "pi_status"]
                   /\ UNCHANGED <<known, connected, defaultSink, req>>
  /\ UNCHANGED <<piConnected, piCheck>>

\* part_001:163-193, 222-225: the endpoint's handler has answered
EndpointResponse ==
  /\ client.pc = "disc_wait"
  /\ req[1].pc = "done"
  /\ client' = NextEndpoint(client)
  /\ UNCHANGED <<known, connected, defaultSink, req, piConnected, piCheck>>

\* part_001:324-327: `a || b`: a, when a is truthy, and otherwise the next
\* operand; the last operand is the value whatever it is
OrElse(c, v) ==
  IF Truthy(v) \/ c.k = Len(CommandEndpoints)
  THEN [c EXCEPT !.pc = "idle", !.result = v]
  ELSE [c EXCEPT !.pc = "cmd_send", !.k = c.k + 1]

\* part_001:321-323: piClient.sendCommand with a Bluetooth command
SendCommand ==
  /\ client.pc = "idle"
  /\ \E command \in BluetoothCommands :
       client' = [client EXCEPT !.pc = "cmd_send", !.op = "sendCommand",
                                !.command = command, !.k = 1, !.calls = <<>>,
                                !.result = UndefinedValue]
  /\ UNCHANGED <<known, connected, defaultSink, req, piConnected, piCheck>>

\* part_001:324-327, 138-161, 195-201: makeRequest(endpoint k, 'POST', ...);
\* without a connection it returns at once; the fetch fails, or no POST route
\* matches (404), or the handler of POST /api/bluetooth runs the command
MakeRequest ==
  /\ client.pc = "cmd_send"
  /\ Free(1)
  /\ LET e == CommandEndpoints[client.k]
         c == [client EXCEPT !.calls = Append(client.calls, e)] IN
     \E out \in Outcomes :
       IF ~client.isConnected \/ out = "fail" \/ PostRoute(e) = "none"
       THEN /\ client' = OrElse(c, ApiResponse(FALSE))
            /\ UNCHANGED <<known, connected, defaultSink, req>>
       ELSE /\ client' = [c EXCEPT !.pc = "cmd_wait"]
            /\ CASE client.command = "bluetooth_scan" -> ApiBluetoothScan(1)
                 [] client.command = "bluetooth_audio_connect" -> ApiBluetoothConnect(1)
                 [] client.command = "bluetooth_audio_disconnect" -> ApiBluetoothDisconnect(1)
  /\ UNCHANGED <<piConnected, piCheck>>

\* part_001:165-193: the handler has answered; response.ok is a 2xx status
CommandResponse ==
  /\ client.pc = "cmd_wait"
  /\ req[1].pc = "done"
  /\ client' = OrElse(client, ApiResponse(req[1].resp.status = 200))
  /\ UNCHANGED <<known, connected, defaultSink, req, piConnected, piCheck>>

(* --------------------------- specifications --------------------------- *)
Sinks == {BuiltinSink} \cup {SinkNameFor(d) : d \in Devices}

Init ==
  /\ known \in SUBSET Devices
  /\ connected \in SUBSET known
  /\ defaultSink \in Sinks
  /\ req = [r \in Req |-> Idle]
  /\ piConnected = FALSE
  /\ piCheck = PiCheckIdle
  /\ client = NoConnection

Step(r) ==
  \/ ApiBluetoothConnect(r)
  \/ PostBluetoothConnect(r)
  \/ ApiBluetoothDisconnect(r)
  \/ PostBluetoothDisconnect(r)
  \/ ApiBluetoothScan(r)
  \/ GetBluetoothScan(r)
  \/ GetBluetoothStatus(r)
  \/ GetBluetoothConnected(r)
  \/ ConnectServiceStart(r)
  \/ ConnectListDevices(r)
  \/ ConnectInfoExisting(r)
  \/ ConnectDisconnectExisting(r)
  \/ ConnectTrust(r)
  \/ ConnectPair(r)
  \/ ConnectInfoTarget(r)
  \/ ConnectDisconnectTarget(r)
  \/ ConnectConnect(r)
  \/ ConnectPacmd(r)
  \/ ConnectPactl(r)
  \/ ConnectListSinks(r)
  \/ ConnectTone(r)
  \/ StatusServiceActive(r)
  \/ StatusListDevices(r)
  \/ StatusInfo(r)
  \/ StatusDefaultSink(r)
  \/ ConnectedListDevices(r)
  \/ ConnectedInfo(r)
  \/ ConnectedDefaultSink(r)
  \/ DisconnectAllListDevices(r)
  \/ DisconnectAllInfo(r)
  \/ DisconnectAllDisconnect(r)
  \/ DisconnectAllPacmd(r)
  \/ DisconnectAllPactl(r)
  \/ DisconnectOneInfo(r)
  \/ DisconnectOneDisconnect(r)
  \/ DisconnectOnePacmd(r)
  \/ DisconnectOnePactl(r)
  \/ ScanOn(r)
  \/ ScanOff(r)
  \/ ScanListDevices(r)
  \/ GetScanOn(r)
  \/ GetScanListDevices(r)

\* one client that awaits each response before its next request
Next == Step(1) /\ UNCHANGED <<piConnected, piCheck, client>>

Spec == Init /\ [][Next]_vars

\* two clients whose requests overlap, each through one entry point per operation
NextConcurrent ==
  /\ UNCHANGED <<piConnected, piCheck, client>>
  /\ \E r \in Req :
    \/ ApiBluetoothConnect(r)
    \/ PostBluetoothDisconnect(r)
    \/ GetBluetoothScan(r)
    \/ GetBluetoothStatusOverlapping(r)
    \/ ConnectServiceStart(r)
    \/ ConnectListDevices(r)
    \/ ConnectInfoExisting(r)
    \/ ConnectDisconnectExisting(r)
    \/ ConnectTrust(r)
    \/ ConnectPair(r)
    \/ ConnectInfoTarget(r)
    \/ ConnectDisconnectTarget(r)
    \/ ConnectConnect(r)
    \/ ConnectPacmd(r)
    \/ ConnectPactl(r)
    \/ ConnectListSinks(r)
    \/ ConnectTone(r)
    \/ StatusServiceActive(r)
    \/ StatusListDevices(r)
    \/ StatusInfo(r)
    \/ StatusDefaultSink(r)
    \/ DisconnectAllListDevices(r)
    \/ DisconnectAllInfo(r)
    \/ DisconnectAllDisconnect(r)
    \/ DisconnectAllPacmd(r)
    \/ DisconnectAllPactl(r)
    \/ DisconnectOneInfo(r)
    \/ DisconnectOneDisconnect(r)
    \/ DisconnectOnePacmd(r)
    \/ DisconnectOnePactl(r)
    \/ GetScanOn(r)
    \/ GetScanListDevices(r)

SpecConcurrent == Init /\ [][NextConcurrent]_vars

\* the timer of the reachability check, and one client that sends
\* connection requests
NextBackground ==
  \/ UpdateSystemInfoPeriodically
  \/ PiCheckStep
  \/ /\ UNCHANGED <<piConnected, piCheck, client>>
     /\ \/ ApiBluetoothConnect(1)
        \/ ConnectServiceStart(1)
        \/ ConnectListDevices(1)
        \/ ConnectInfoExisting(1)
        \/ ConnectDisconnectExisting(1)
        \/ ConnectTrust(1)
        \/ ConnectPair(1)
        \/ ConnectInfoTarget(1)
        \/ ConnectDisconnectTarget(1)
        \/ ConnectConnect(1)
        \/ ConnectPacmd(1)
        \/ ConnectPactl(1)
        \/ ConnectListSinks(1)
        \/ ConnectTone(1)

SpecBackground == Init /\ [][NextBackground]_vars

\* one client whose external commands may never return; a command that does
\* return is followed by the handler's next step
NextHang ==
  (Step(1) \/ ToolHangs(1)) /\ UNCHANGED <<piConnected, piCheck, client>>

SpecHang == Init /\ [][NextHang]_vars /\ WF_vars(NextHang)

\* the step of request r ran a command that exited zero: the continuation is
\* the one the code takes after a success (a command whose two outcomes have
\* the same continuation is left alone), and a request is sent only for a
\* device the tool knows, the others failing their first device command
CommandSucceeded(r) ==
  /\ Free(r) /\ InFlight(r)' => req'[r].target \in known
  /\ req[r].pc = "c_svc" => req'[r].pc = "c_list"
  /\ req[r].pc = "c_list" /\ DeviceLines # <<>> => req'[r].pc = "c_info"
  /\ req[r].pc = "c_info" /\ Head(req[r].todo) \in connected => req'[r].pc = "c_disc"
  /\ req[r].pc = "c_disc" => Head(req[r].todo) \notin connected'
  /\ req[r].pc = "c_trust" => req'[r].pc = "c_pair"
  /\ req[r].pc = "c_pair" => "pair" \notin req'[r].failures
  /\ req[r].pc = "c_tinfo" /\ req[r].target \in connected => req'[r].pc = "c_tdisc"
  /\ req[r].pc = "c_connect" => req'[r].pc = "c_pacmd"
  /\ req[r].pc = "c_pacmd" => req'[r].pc = "c_tone"

\* one client that sends connection requests, every command of which
\* succeeds: the target, disconnected by the clearing loop, is never found
\* connected by the probe of step 4, and pacmd leaves nothing for pactl
NextAllSucceed ==
  /\ UNCHANGED <<piConnected, piCheck, client>>
  /\ \/ ApiBluetoothConnect(1)
     \/ PostBluetoothConnect(1)
     \/ ConnectServiceStart(1)
     \/ ConnectListDevices(1)
     \/ ConnectInfoExisting(1)
     \/ ConnectDisconnectExisting(1)
     \/ ConnectTrust(1)
     \/ ConnectPair(1)
     \/ ConnectInfoTarget(1)
     \/ ConnectConnect(1)
     \/ ConnectPacmd(1)
     \/ ConnectTone(1)
  /\ CommandSucceeded(1)

SpecAllSucceed == Init /\ [][NextAllSucceed]_vars

\* the frontend client and the backend's handlers of the requests it sends
NextClient ==
  \/ PiClientConnect
  \/ GetApiPiStatus
  \/ PiCheckStep
  \/ PiStatusResponse
  \/ DiscoverEndpoints
  \/ VerifyEndpoint
  \/ EndpointResponse
  \/ SendCommand
  \/ MakeRequest
  \/ CommandResponse
  \/ /\ UNCHANGED <<piConnected, piCheck, client>>
     /\ \/ ConnectServiceStart(1)
        \/ ConnectListDevices(1)
        \/ ConnectInfoExisting(1)
        \/ ConnectDisconnectExisting(1)
        \/ ConnectTrust(1)
        \/ ConnectPair(1)
        \/ ConnectInfoTarget(1)
        \/ ConnectDisconnectTarget(1)
        \/ ConnectConnect(1)
        \/ ConnectPacmd(1)
        \/ ConnectPactl(1)
        \/ ConnectListSinks(1)
        \/ ConnectTone(1)
        \/ StatusServiceActive(1)
        \/ StatusListDevices(1)
        \/ StatusInfo(1)
        \/ StatusDefaultSink(1)
        \/ ConnectedListDevices(1)
        \/ ConnectedInfo(1)
        \/ ConnectedDefaultSink(1)
        \/ DisconnectAllListDevices(1)
        \/ DisconnectAllInfo(1)
        \/ DisconnectAllDisconnect(1)
        \/ DisconnectAllPacmd(1)
        \/ DisconnectAllPactl(1)
        \/ ScanOn(1)
        \/ ScanOff(1)
        \/ ScanListDevices(1)
        \/ GetScanOn(1)
        \/ GetScanListDevices(1)

SpecClient == Init /\ [][NextClient]_vars

(* ------------------------------- claims ------------------------------- *)
Done(r) == req[r].pc = "done"

\* the function of request r returned its record and the handler answered 200
Returned(r, kind) ==
  Done(r) /\ req[r].resp.status = 200 /\ req[r].resp.data.kind = kind

\* the operations that change what the control tool is doing
Exclusive == {"scan", "getscan", "connect", "disconnectOne", "disconnectAll"}

Writers == {"connect", "disconnectOne", "disconnectAll"}

\* C1: two connection attempts serialize: while one attempt has an external
\* command in flight (from its preflight to its confirmation tone), no other
\* attempt has one in flight.
C1_ConnectAttemptsSerialize ==
  \A r1, r2 \in Req :
    (r1 # r2 /\ InFlight(r1) /\ req[r1].fn = "connect")
      => ~(InFlight(r2) /\ req[r2].fn = "connect")

\* C2: at any time at most one of the operations scan, connect, disconnect-one
\* and disconnect-all has an external command in flight.
C2_OneOperationInFlight ==
  Cardinality({r \in Req : InFlight(r) /\ req[r].fn \in Exclusive}) <= 1

\* C3: a status snapshot issues none of its device-list, per-device info or
\* default-sink queries while a connect or disconnect operation is between its
\* first and its last external command.
C3_SnapshotSerializesWithWriters ==
  [][\A r \in Req :
       (/\ req'[r] # req[r]
        /\ req'[r].fn = "status"
        /\ req'[r].pc \in {"s_list", "s_info", "s_sink"})
         => ~\E w \in Req \ {r} : InFlight(w) /\ req[w].fn \in Writers]_vars

HexDigits ==
  {"0", "1", "2", "3", "4", "5", "6", "7", "8", "9", "A", "B", "C", "D", "E", "F"}

\* an address-shaped token: pairs of hex digits separated by colons
AddressShaped(id) ==
  /\ Len(id) % 3 = 2
  /\ \A i \in 1..Len(id) : IF i % 3 = 0 THEN id[i] = ":" ELSE id[i] \in HexDigits

\* C4: a bluetooth_audio_connect of POST /api/bluetooth whose deviceId is not
\* address-shaped issues no external command and is answered 400 with
\* needsPiScan: true.
C4_NonAddressRejected ==
  \A r \in Req :
    (/\ req[r].entry = "api_bluetooth"
     /\ req[r].target # NoId
     /\ ~AddressShaped(req[r].target))
      => /\ ~req[r].issued
         /\ Done(r) => req[r].resp.status = 400 /\ req[r].resp.needsPiScan

\* C5: an attempt whose Connect(target) succeeded and whose two sink-selection
\* commands both failed is answered 200 with success: true, and the result it
\* carries has connected = true and audioSetSuccess = false.
C5_ConnectedWithoutAudio ==
  \A r \in Req :
    (Done(r) /\ req[r].fn = "connect" /\ {"pacmd", "pactl"} \subseteq req[r].failures)
      => /\ req[r].resp.status = 200
         /\ req[r].resp.success
         /\ req[r].resp.data.kind = "connect"
         /\ req[r].resp.data.connected
         /\ ~req[r].resp.data.audioSetSuccess

C5_Witness ==
  \E r \in Req :
    /\ Returned(r, "connect")
    /\ {"pacmd", "pactl"} \subseteq req[r].failures
    /\ req[r].target \in connected

\* the labels at which Connect(target) has been issued
ConnectIssued == {"c_connect", "c_pacmd", "c_pactl", "c_sinks", "c_tone"}

\* C6: an attempt whose target was connected when the attempt started issues
\* Disconnect(target) before Connect(target), and its result has
\* wasReconnected = true.
C6_ReconnectReported ==
  \A r \in Req :
    (req[r].fn = "connect" /\ req[r].preConnected)
      => /\ req[r].pc \in ConnectIssued => req[r].targetDisconnected
         /\ Returned(r, "connect")
              => req[r].targetDisconnected /\ req[r].resp.data.wasReconnected

\* the snapshot of request r shows no connected device
ShowsNothingConnected(r) ==
  /\ req[r].resp.data.connectedDevices = <<>>
  /\ ~req[r].resp.data.hasConnectedAudioDevice

C8_SnapshotAfterConnect ==
  \A r \in Req :
    (/\ Returned(r, "status")
     /\ req[r].failures = {}
     /\ req[r].after.fn = "connect"
     /\ req[r].after.returned
     /\ req[r].after.audioSetSuccess
     /\ req[r].after.target \in AudioCapable)
      => /\ \E i \in 1..Len(req[r].resp.data.connectedDevices) :
              LET e == req[r].resp.data.connectedDevices[i] IN
                /\ e.id = req[r].after.target
                /\ "isAudioDevice" \in DOMAIN e
                /\ e.isAudioDevice
         /\ req[r].resp.data.currentAudioSink = SinkNameFor(req[r].after.target)

\* C9: getBluetoothStatus never throws: whichever of its commands fail, the
\* request ends with a snapshot record, answered 200.
C9_StatusNeverThrows ==
  \A r \in Req :
    (Done(r) /\ req[r].fn = "status")
      => /\ req[r].resp.status = 200
         /\ req[r].resp.success
         /\ req[r].resp.data.kind = "status"

C9_Witness ==
  \E r \in Req :
    Done(r) /\ req[r].fn = "status" /\ "service" \in req[r].failures

\* the snapshot of request r is the empty one
ShowsFailure(r) ==
  /\ ~req[r].resp.data.serviceActive
  /\ req[r].resp.data.connectedDevices = <<>>
  /\ req[r].resp.data.audioDevices = <<>>

\* C10 as stated: whenever any command of a snapshot fails, the snapshot has
\* serviceActive = false and empty connectedDevices and audioDevices.
C10_AnyFailureEmptiesSnapshot ==
  \A r \in Req :
    (Returned(r, "status") /\ req[r].failures # {}) => ShowsFailure(r)

\* C10 as amended: when the service-status query or the device listing fails,
\* the snapshot has serviceActive = false and empty connectedDevices and
\* audioDevices; when only per-device info queries or the default-sink query
\* fail, the snapshot keeps serviceActive = true, and a failed default-sink
\* query leaves currentAudioSink "unknown".
C10_FatalFailureEmptiesSnapshot ==
  \A r \in Req :
    Returned(r, "status")
      => /\ req[r].failures \cap {"service", "list"} # {} => ShowsFailure(r)
         /\ (req[r].failures # {} /\ req[r].failures \subseteq {"info", "sink"})
              => /\ req[r].resp.data.serviceActive
                 /\ "sink" \in req[r].failures
                      => req[r].resp.data.currentAudioSink = UnknownSink

C10_Witness ==
  \E r \in Req :
    /\ Returned(r, "status")
    /\ "list" \in req[r].failures
    /\ req[r].serviceActive
    /\ connected # {}

\* the devices a list of entries names
Ids(entries) == {entries[i].id : i \in 1..Len(entries)}

\* C11: every device in a snapshot's connectedDevices is in the control tool's
\* device list and is reported connected by the tool, and every device in
\* audioDevices is also in connectedDevices; the same holds for the list
\* GET /bluetooth/connected answers with.
C11_SnapshotListsOnlyConnected ==
  \A r \in Req :
    /\ Returned(r, "status")
         => /\ Ids(req[r].resp.data.connectedDevices) \subseteq known \cap connected
            /\ Ids(req[r].resp.data.audioDevices)
                 \subseteq Ids(req[r].resp.data.connectedDevices)
    /\ Returned(r, "connected")
         => Ids(req[r].resp.data.connectedDevices) \subseteq known \cap connected

C11_Witness ==
  \E r \in Req :
    /\ Returned(r, "status")
    /\ req[r].resp.data.audioDevices # <<>>
    /\ known \ connected # {}
    /\ req[r].failures = {}

\* C12: no Bluetooth request whose external command exits non-zero is
\* answered with HTTP 500: every request that ends is answered 200 (or 400
\* for a rejected input), the failure carried as success: false.
C12_ToolFailureAnswered200 ==
  \A r \in Req : Done(r) => req[r].resp.status # 500

\* C13: every request that has an external command in flight eventually
\* ends with a response, even when the command never returns.
C13_EveryRequestCompletes ==
  \A r \in Req : InFlight(r) ~> Done(r)

\* every address of the model, in range or not
Addresses == {AllIds[i] : i \in 1..Len(AllIds)}

BluetoothTools == {"bluetoothctl", "systemctl", "pacmd", "pactl", "mpg123"}

\* C15: a step of the periodic reachability check changes nothing but the
\* check's own position and the cached flag piConnected, and the command it
\* issues is none of the Bluetooth control or audio-routing tools.
C15_PeriodicCheckFrame ==
  [][(piCheck' # piCheck \/ piConnected' # piConnected)
       => /\ UNCHANGED <<known, connected, defaultSink, req>>
          /\ piCheck'.i # 0 => PiChecks[piCheck'.i].tool \notin BluetoothTools]_vars

C15_Witness ==
  /\ piCheck.i = Len(PiChecks)
  /\ piCheck.successCount > 0
  /\ piConnected
  /\ \E r \in Req : InFlight(r) /\ req[r].fn = "connect"

\* C16: for a device identifier the control tool has never seen, DisconnectOne
\* ends with an error response and issues no Disconnect, a connection attempt
\* skips the forced disconnect of step 4, no snapshot lists the device, and
\* the request always has a next step until it is answered.
C16_UnknownDeviceHandled ==
  \A r \in Req :
    (req[r].target # NoId /\ req[r].target \notin known)
      => /\ req[r].fn = "disconnectOne"
              => /\ req[r].pc # "do_disc"
                 /\ ~req[r].targetDisconnected
                 /\ Done(r) => /\ req[r].resp.status = 500
                                /\ ~req[r].resp.success
                                /\ "info" \in req[r].failures
         /\ req[r].fn = "connect"
              => /\ req[r].pc # "c_tdisc"
                 /\ ~req[r].reconnectTriggered
                 /\ Done(r) => req[r].resp.status \in {400, 500}
         /\ InFlight(r) => ENABLED Step(r)

C16_Witness ==
  \E r \in Req :
    /\ Done(r)
    /\ req[r].fn = "disconnectOne"
    /\ req[r].target \in Devices \ known
    /\ req[r].resp.status = 500

\* the commands of a connection attempt in the order the claim gives them;
\* "c_sinks" is the diagnostic sink listing issued after both set-default-sink
\* commands failed
ConnectOrder ==
  << "c_svc", "c_list", "c_info", "c_disc", "c_trust", "c_pair", "c_tinfo",
     "c_tdisc", "c_connect", "c_pacmd", "c_pactl", "c_sinks", "c_tone", "done" >>

Rank(pc) == CHOOSE i \in 1..Len(ConnectOrder) : ConnectOrder[i] = pc

\* the labels at which a bluetoothctl command is in flight
BluetoothctlLabels ==
  {"c_list", "c_info", "c_disc", "c_trust", "c_pair", "c_tinfo", "c_tdisc", "c_connect"}

\* C17: a connection attempt starts with the preflight, and each command it
\* issues comes later in the order preflight, enumeration, info and Disconnect
\* of the previously connected devices, Trust, Pair, info of the target,
\* Disconnect of the target, Connect, set-default-sink, tone than the command
\* before it (the clearing loop alone goes back, from one device to the next);
\* no bluetoothctl command is issued after a failed preflight, and
\* set-default-sink is issued only once Connect(target) has succeeded.
C17_ConnectCommandOrder ==
  [][\A r \in Req :
       (req'[r] # req[r] /\ req'[r].fn = "connect" /\ req'[r].issued)
         => /\ Free(r) => req'[r].pc = "c_svc"
            /\ InFlight(r)
                 => \/ Rank(req'[r].pc) > Rank(req[r].pc)
                    \/ req[r].pc \in {"c_info", "c_disc"} /\ req'[r].pc = "c_info"
            /\ req'[r].pc \in BluetoothctlLabels => "service" \notin req'[r].failures
            /\ req'[r].pc = "c_disc" => req[r].pc = "c_info"
            /\ req'[r].pc = "c_pair" => req[r].pc = "c_trust"
            /\ req'[r].pc = "c_tdisc" => req[r].pc = "c_tinfo"
            /\ req'[r].pc \in {"c_pacmd", "c_pactl"}
                 => /\ req[r].pc \in {"c_connect", "c_pacmd"}
                    /\ "connect" \notin req'[r].failures
                    /\ req[r].target \in connected'
            /\ req'[r].pc = "c_tone" => req[r].pc \in {"c_pacmd", "c_pactl", "c_sinks"}]_vars

C17_Witness ==
  \E r \in Req :
    /\ Returned(r, "connect")
    /\ req[r].reconnectTriggered
    /\ req[r].resp.data.audioSetSuccess
    /\ "pacmd" \in req[r].failures

\* C18: in every result a connection attempt returns, wasReconnected is true
\* if and only if the info probe of step 4 reported the target connected (and
\* Disconnect(target) was then issued before Connect(target)).
C18_WasReconnectedIffTriggered ==
  \A r \in Req :
    Returned(r, "connect")
      => (req[r].resp.data.wasReconnected <=> req[r].reconnectTriggered)

\* C19: Connect(target) is the only fatal command after the preflight: a
\* failed Connect ends the attempt at once with an error response, so that no
\* set-default-sink and no tone follows it; a returned result has
\* connected = true and follows a Connect that succeeded; and an attempt ends
\* in an error only after a failed preflight or a failed Connect.
C19_ConnectOnlyFatalStep ==
  \A r \in Req :
    req[r].fn = "connect"
      => /\ "connect" \in req[r].failures
              => Done(r) /\ req[r].resp.status = 500 /\ ~req[r].resp.success
         /\ Returned(r, "connect")
              => /\ req[r].resp.data.connected
                 /\ "connect" \notin req[r].failures
                 /\ req[r].target \in connected
         /\ (Done(r) /\ req[r].resp.status = 500)
              => req[r].failures \cap {"service", "connect"} # {}

C19_Witness ==
  \E r \in Req :
    /\ Done(r)
    /\ req[r].fn = "connect"
    /\ "connect" \in req[r].failures
    /\ req[r].target \in known

\* C20: no outcome of the enumeration of step 2, of an info probe or
\* Disconnect of a previously connected device, or of the tone ends the
\* attempt in an error: after each command of step 2 the attempt goes on with
\* step 2 or with Trust(target), also when a Disconnect left its device
\* connected, and after the tone it returns connected = true with the
\* audioSetSuccess that the sink selection had produced.
C20_BestEffortFailuresNotFatal ==
  [][\A r \in Req :
       (req'[r] # req[r] /\ req[r].fn = "connect")
         => /\ req[r].pc \in {"c_list", "c_info", "c_disc"}
                 => req'[r].pc \in {"c_info", "c_disc", "c_trust"}
            /\ req[r].pc = "c_tone"
                 => /\ req'[r].pc = "done"
                    /\ req'[r].resp.status = 200
                    /\ req'[r].resp.data.kind = "connect"
                    /\ req'[r].resp.data.connected
                    /\ req'[r].resp.data.audioSetSuccess = req[r].audioSetSuccess]_vars

\* a device other than the target is still connected after the attempt: a
\* command of step 2 failed for it
C20_Witness ==
  \E r \in Req :
    /\ Returned(r, "connect")
    /\ connected \ {req[r].target} # {}

\* C21: a Pair(target) that exits non-zero does not end the attempt: the
\* attempt goes on to the info probe of step 4, and from there, through the
\* forced disconnect if the probe reports the target connected, to
\* Connect(target).
C21_PairFailureTolerated ==
  [][\A r \in Req :
       (req'[r] # req[r] /\ req[r].fn = "connect")
         => /\ req[r].pc = "c_pair" => req'[r].pc = "c_tinfo"
            /\ "pair" \in req'[r].failures => req'[r].pc = "c_tinfo"
            /\ req[r].pc = "c_tinfo" => req'[r].pc \in {"c_tdisc", "c_connect"}
            /\ req[r].pc = "c_tdisc" => req'[r].pc = "c_connect"]_vars

C21_Witness ==
  \E r \in Req :
    /\ req[r].fn = "connect"
    /\ req[r].pc = "c_tinfo"
    /\ "pair" \in req[r].failures

\* what the two sink-selection commands made of the audio-routed flag
AudioRouted(loc) == ~({"pacmd", "pactl"} \subseteq loc.failures)

\* C22: pacmd is the first sink-selection command, issued right after Connect;
\* pactl is issued exactly when pacmd has failed; and audioSetSuccess, in the
\* attempt and in its result, is true exactly when one of the two succeeded.
C22_SinkSelectionFallback ==
  [][\A r \in Req :
       (req'[r] # req[r] /\ req'[r].fn = "connect" /\ req'[r].issued)
         => /\ req'[r].pc = "c_pacmd"
                 => req[r].pc = "c_connect" /\ req'[r].failures \cap {"pacmd", "pactl"} = {}
            /\ req'[r].pc = "c_pactl"
                 => /\ req[r].pc = "c_pacmd"
                    /\ "pacmd" \in req'[r].failures
                    /\ "pactl" \notin req'[r].failures
            /\ (req[r].pc = "c_pacmd" /\ "pacmd" \in req'[r].failures)
                 => req'[r].pc = "c_pactl"
            /\ (req[r].pc = "c_pacmd" /\ "pacmd" \notin req'[r].failures)
                 => req'[r].pc = "c_tone" /\ req'[r].audioSetSuccess
            /\ req[r].pc = "c_pactl"
                 => req'[r].audioSetSuccess = ("pactl" \notin req'[r].failures)
            /\ req'[r].pc \in {"c_sinks", "c_tone"}
                 => req'[r].audioSetSuccess = AudioRouted(req'[r])
            /\ (req'[r].pc = "done" /\ req'[r].resp.status = 200)
                 => req'[r].resp.data.audioSetSuccess = AudioRouted(req'[r])]_vars

C22_Witness ==
  \E r \in Req :
    /\ Returned(r, "connect")
    /\ req[r].failures = {"pacmd"}
    /\ req[r].resp.data.audioSetSuccess
    /\ defaultSink = SinkNameFor(req[r].target)

\* C24: DisconnectOne on a device the tool lists and does not report connected
\* issues no Disconnect and no sink reset; when its info probe exits zero it
\* returns disconnected = false and is answered 200 with success: true.
C24_DisconnectOneNoOp ==
  \A r \in Req :
    (/\ req[r].fn = "disconnectOne"
     /\ req[r].target \in known
     /\ ~req[r].preConnected)
      => /\ req[r].pc \notin {"do_disc", "do_pacmd", "do_pactl"}
         /\ ~req[r].targetDisconnected
         /\ (Done(r) /\ "info" \notin req[r].failures)
              => /\ req[r].resp.status = 200
                 /\ req[r].resp.success
                 /\ req[r].resp.data.kind = "disconnectOne"
                 /\ ~req[r].resp.data.disconnected

C24_Witness ==
  \E r \in Req :
    /\ Returned(r, "disconnectOne")
    /\ ~req[r].resp.data.disconnected
    /\ req[r].target \in known
    /\ IsBluezSink(defaultSink)
    /\ connected # {}

\* seq is what is left of whole after some of its first elements
IsSuffix(seq, whole) ==
  /\ Len(seq) <= Len(whole)
  /\ seq = SubSeq(whole, Len(whole) - Len(seq) + 1, Len(whole))

\* no device occurs twice in seq
NoDuplicates(seq) == \A i, j \in 1..Len(seq) : seq[i] = seq[j] => i = j

\* C25: DisconnectAll issues its Disconnect commands one after the other over
\* the list of devices its enumeration found connected, each device once,
\* going on to the next device whether or not the Disconnect succeeded; the
\* sink reset is issued only when no Disconnect is left to issue; and
\* whatever the reset commands do, the operation returns its result.
C25_DisconnectAllOrder ==
  [][\A r \in Req :
       (req'[r] # req[r] /\ req[r].fn = "disconnectAll" /\ InFlight(r))
         => /\ NoDuplicates(req'[r].connectedDevices)
            /\ (req[r].pc = "da_info" /\ req'[r].pc = "da_disc")
                 => req'[r].todo = req'[r].connectedDevices
            /\ req[r].pc = "da_disc"
                 => /\ req'[r].connectedDevices = req[r].connectedDevices
                    /\ IF Len(req[r].todo) > 1
                       THEN req'[r].pc = "da_disc" /\ req'[r].todo = Tail(req[r].todo)
                       ELSE req'[r].pc = "da_pacmd"
            /\ req'[r].pc = "da_disc"
                 => /\ req'[r].todo # <<>>
                    /\ IsSuffix(req'[r].todo, req'[r].connectedDevices)
            /\ req'[r].pc = "da_pacmd"
                 => \/ req[r].pc = "da_disc" /\ Len(req[r].todo) = 1
                    \/ req[r].pc \in {"da_list", "da_info"} /\ req'[r].connectedDevices = <<>>
            /\ req'[r].pc = "da_pactl" => req[r].pc = "da_pacmd"
            /\ req[r].pc \in {"da_pacmd", "da_pactl"}
                 => \/ req'[r].pc = "da_pactl"
                    \/ /\ req'[r].pc = "done"
                       /\ req'[r].resp.status = 200
                       /\ req'[r].resp.data.kind = "disconnectAll"]_vars

\* both devices were found connected, a Disconnect failed, and the reset failed
C25_Witness ==
  \E r \in Req :
    /\ Returned(r, "disconnectAll")
    /\ req[r].resp.data.devicesDisconnected > 1
    /\ "disconnect" \in req[r].failures
    /\ defaultSink # BuiltinSink

\* C26 as stated, for the target as one of the devices connected before: when
\* an attempt whose target was connected at its start ends with a failed
\* Connect(target), the target is still connected.
C26_FailedAttemptKeepsConnections ==
  \A r \in Req :
    (/\ Done(r)
     /\ req[r].fn = "connect"
     /\ "connect" \in req[r].failures
     /\ req[r].preConnected)
      => req[r].target \in connected

\* C26 as amended: up to a successful Connect(target) an attempt only ever
\* disconnects devices, and it changes the default sink only in its
\* sink-selection commands: an attempt that ends with a failed Connect has
\* connected no device, has not reconnected the devices it disconnected, and
\* has left the default sink as it was.
C26_FailedAttemptOnlyDisconnects ==
  [][\A r \in Req :
       (req'[r] # req[r] /\ req[r].fn = "connect" /\ InFlight(r))
         => /\ \/ connected' \subseteq connected
               \/ /\ req[r].pc = "c_connect"
                  /\ req'[r].pc = "c_pacmd"
                  /\ connected' = connected \cup {req[r].target}
            /\ req[r].pc \notin {"c_pacmd", "c_pactl"} => defaultSink' = defaultSink
            /\ "connect" \in req'[r].failures
                 => connected' = connected /\ req'[r].pc = "done"]_vars

C26_Witness ==
  \E r \in Req :
    /\ Done(r)
    /\ req[r].fn = "connect"
    /\ "connect" \in req[r].failures
    /\ req[r].preConnected
    /\ req[r].target \notin connected

\* C29: the device records a scan returns are, in order, the lines of the
\* control tool's device list, each with its line's identifier; with no
\* device listed the returned list is empty and its count is 0.
C29_ScanRecordsAreDeviceLines ==
  \A r \in Req :
    Returned(r, "scan")
      => /\ Len(req[r].resp.data.devices) = Len(DeviceLines)
         /\ req[r].resp.data.count = Len(DeviceLines)
         /\ \A i \in 1..Len(req[r].resp.data.devices) :
              /\ i <= Len(DeviceLines)
              /\ req[r].resp.data.devices[i].id = DeviceLines[i]

\* C30: every device in the disconnectedDevices list DisconnectAll returns is
\* a device whose Disconnect succeeded, so that none of them is connected when
\* the result is returned.
C30_DisconnectedDevicesSucceeded ==
  \A r \in Req :
    Returned(r, "disconnectAll")
      => /\ \A i \in 1..Len(req[r].resp.data.disconnectedDevices) :
              req[r].resp.data.disconnectedDevices[i] \notin connected
         /\ "disconnect" \in req[r].failures
              => req[r].resp.data.devicesDisconnected < Len(req[r].connectedDevices)

\* C23: when a connection attempt all of whose commands succeeded returns,
\* following any number of such attempts, its target is the one connected
\* device and the default sink is the sink named after the target.
C23_SingleActiveDevice ==
  \A r \in Req :
    Returned(r, "connect")
      => /\ connected = {req[r].target}
         /\ defaultSink = SinkNameFor(req[r].target)
         /\ req[r].resp.data.audioSetSuccess
         /\ req[r].failures = {}

\* an attempt returned whose target the clearing loop had to disconnect, with
\* both devices known to the tool
C23_Witness ==
  \E r \in Req :
    /\ Returned(r, "connect")
    /\ req[r].targetDisconnected
    /\ known = Devices
    /\ connected = {req[r].target}

\* the commands of the control tool that scan, connect or disconnect
ControlPlaneCommands ==
  {"sc_on", "sc_off", "gs_on", "c_disc", "c_tdisc", "c_connect", "da_disc",
   "do_disc"}

\* C27: while piClient.connect runs, its endpoint discovery included, no
\* request of the backend has a scan, connect or disconnect command of the
\* control tool in flight.
C27_ConnectRunsNoControlCommand ==
  client.op = "connect"
    => \A r \in Req : req[r].pc \notin ControlPlaneCommands

\* C28: when piClient.sendCommand returns for a Bluetooth command sent over
\* an established connection, it has called the endpoints in the order
\* /api/bluetooth, /bluetooth, /api/controls, /controls, it has stopped at
\* the first request that succeeded, whose response it returns, and it has
\* gone through all four when none succeeded.
C28_SendCommandFallsBack ==
  (client.op = "sendCommand" /\ client.pc = "idle" /\ client.isConnected)
    => /\ client.calls = SubSeq(CommandEndpoints, 1, Len(client.calls))
       /\ client.result.success \/ Len(client.calls) = Len(CommandEndpoints)

====
